---- MODULE Spec2Model ----
(***************************************************************************)
(* Model of the RISC-V PMP decoder and permission resolver of              *)
(* src/pmp_viz/pmp_visualizer.py, of the cancel-pair scan of               *)
(* src/parse-instr-latency-diff.py, and of the area report parser of       *)
(* src/syn_magic.py.                                                       *)
(*                                                                         *)
(* Python integers are unbounded, and the program handles values up to     *)
(* 2^64 and beyond (1 << log2len), which do not fit TLC's integers.  A     *)
(* non-negative Python int is therefore modelled by the set of positions   *)
(* of its one-bits: 0 is {}, 1 is {0}, 0x1000 is {12}, 2^64 - 1 is 0..63.  *)
(* Small quantities (bit counts, list indices, the config byte) are TLA+   *)
(* integers.  An Optional value is a sequence: None is <<>>, a present     *)
(* value v is <<v>>.                                                       *)
(***************************************************************************)
EXTENDS Integers, Sequences, FiniteSets, TLC

\* pmp_visualizer.py: main() and visualize_pmp_entries()
VARIABLES entries, access_addr, access_size, access_type,
          pc, i, regions, info, perm, perms, matching_pmp

\* pmp_visualizer.py: the locals of one call of get_region_bounds, run
\* statement by statement
VARIABLES lpc, temp_addr, trailing_ones

\* parse-instr-latency-diff.py: the cancel-pair scan of main()
VARIABLES scan_pc, pc_changes, scan_i, change_counts, significant_indices,
          cancelled_pairs, processed_indices

\* syn_magic.py: AreaReportParser.parse_report()
VARIABLES area_pc, lines_read, current_indent, path_stack, data

pmp_vars == <<entries, access_addr, access_size, access_type,
              pc, i, regions, info, perm, perms, matching_pmp>>

loop_vars == <<lpc, temp_addr, trailing_ones>>

scan_vars == <<scan_pc, pc_changes, scan_i, change_counts,
               significant_indices, cancelled_pairs, processed_indices>>

area_vars == <<area_pc, lines_read, current_indent, path_stack, data>>

vars == <<pmp_vars, loop_vars, scan_vars, area_vars>>

\* ------------------------------------------------------------------ bounds

\* Longest entry list main() builds in the model.
MaxEntries == 2

\* Largest number of trailing one-bits of an address register in DecodeSpec.
MaxOnes == 64

\* Largest number of changed instructions the latency script scans
MaxChanges == 7

\* Largest number of report lines the area report parser reads
MaxLines == 4

\* ----------------------------------------------- Python int arithmetic

None == <<>>

Some(v) == <<v>>

Zero == {}

One == {0}

\* A small TLA+ integer as a Python int (bit set).
FromInt(n) == {b \in 0..30 : (n \div (2^b)) % 2 = 1}

\* n << k
Shl(n, k) == {b + k : b \in n}

\* n >> k
Shr(n, k) == {b - k : b \in {c \in n : c >= k}}

\* n & 1
LowBit(n) == 0 \in n

\* a < b: the highest bit in which they differ is a bit of b.
Lt(a, b) == \E h \in b \ a : \A l \in a \ b : l < h

\* a <= b
Le(a, b) == a = b \/ Lt(a, b)

\* The carry into bit k of a + b: some lower bit j generates a carry (both
\* have it) and every bit between j and k propagates it (one of them has it).
CarryIn(a, b, k) ==
    \E j \in a : /\ j \in b
                 /\ j < k
                 /\ \A l \in (j + 1)..(k - 1) : l \in a \/ l \in b

\* a + b: bit k of the sum is the exclusive or of the two bits and the carry.
Add(a, b) ==
    {k \in (a \cup b) \cup {x + 1 : x \in a \cup b} :
        ((k \in a) # (k \in b)) # CarryIn(a, b, k)}

\* The lowest one-bit of a non-zero n.
LowestBit(n) == CHOOSE l \in n : \A b \in n : l <= b

\* n - 1 as a signed Python int: [neg, mag] with value -mag when neg.
\* 0 - 1 is -1; otherwise the lowest one-bit is cleared and the bits below set.
MinusOne(n) ==
    IF n = Zero
    THEN [neg |-> TRUE, mag |-> One]
    ELSE [neg |-> FALSE, mag |-> (n \ {LowestBit(n)}) \cup (0..(LowestBit(n) - 1))]

\* x < b for a signed x and a non-negative b
SignedLt(x, b) == x.neg \/ Lt(x.mag, b)

\* --------------------------------------------------------------- PMPEntry

PMP_SHIFT == 2

XLEN == 64

Entry(addr, cfg) == [addr |-> addr, cfg |-> cfg]

readable(self) == (self.cfg % 2) = 1

writable(self) == ((self.cfg \div 2) % 2) = 1

executable(self) == ((self.cfg \div 4) % 2) = 1

\* address_matching read from bits [5:4], (cfg >> 4) & 0x03: a faulty decoder.
address_matching_bits_5_4(self) == (self.cfg \div 16) % 4

\* address_matching with a one-bit mask, (cfg >> 3) & 0x01: a faulty decoder.
address_matching_one_bit(self) == (self.cfg \div 8) % 2

address_matching(self) == (self.cfg \div 8) % 4

\* locked read from bit 6, cfg & 0x40: a faulty decoder.
locked_bit_6(self) == ((self.cfg \div 64) % 2) = 1

locked(self) == ((self.cfg \div 128) % 2) = 1

\* while temp_addr & 1: trailing_ones += 1; temp_addr >>= 1
RECURSIVE CountTrailingOnes(_, _)
CountTrailingOnes(temp, n_trailing) ==
    IF LowBit(temp)
    THEN CountTrailingOnes(Shr(temp, 1), n_trailing + 1)
    ELSE n_trailing

\* log2len without the shift, trailing_ones + 3: a faulty decoder.
log2len_without_shift(n_trailing) == n_trailing + 3

\* log2len = trailing_ones + PMP_SHIFT + 3
log2len(n_trailing) == n_trailing + PMP_SHIFT + 3

\* The whole address space with the exclusive end 1 << XLEN: a faulty decoder.
whole_address_space_exclusive == <<Zero, Shl(One, XLEN)>>

\* return (0, (1 << XLEN) - 1)
whole_address_space == <<Zero, MinusOne(Shl(One, XLEN)).mag>>

\* The TOR branch without the previous address: a faulty decoder.
tor_bounds_from_zero(self, prev_addr) == <<Zero, Shl(self.addr, PMP_SHIFT)>>

\* The TOR branch, lines 46-48
tor_bounds(self, prev_addr) ==
    IF prev_addr = None
    THEN <<Zero, Shl(self.addr, PMP_SHIFT)>>
    ELSE <<Shl(prev_addr[1], PMP_SHIFT), Shl(self.addr, PMP_SHIFT)>>

\* The NA4 branch with the unshifted register as start: a faulty decoder.
na4_bounds_unshifted(self) == <<self.addr, Add(self.addr, FromInt(4))>>

\* The NA4 branch, lines 50-51
na4_bounds(self) ==
    LET addr == Shl(self.addr, PMP_SHIFT)
    IN  <<addr, Add(addr, FromInt(4))>>

\* The NAPOT branch after the trailing-ones loop, lines 65-79
napot_bounds(encoded_addr, n_trailing) ==
    IF log2len(n_trailing) = PMP_SHIFT
    THEN LET base_addr == Shl(encoded_addr, PMP_SHIFT)
         IN  <<base_addr, Add(base_addr, FromInt(4))>>
    ELSE IF log2len(n_trailing) = XLEN
    THEN whole_address_space
    ELSE LET base_addr == Shl(Shr(encoded_addr, n_trailing),
                              n_trailing + PMP_SHIFT)
             size == Shl(One, log2len(n_trailing))
         IN  <<base_addr, Add(base_addr, size)>>

get_region_bounds(self, prev_addr) ==
    IF address_matching(self) = 0
    THEN <<Zero, Zero>>
    ELSE IF address_matching(self) = 1
    THEN tor_bounds(self, prev_addr)
    ELSE IF address_matching(self) = 2
    THEN na4_bounds(self)
    ELSE LET encoded_addr == self.addr
         IN  napot_bounds(encoded_addr, CountTrailingOnes(encoded_addr, 0))

\* access_end = access_addr + access_size - 1, a signed Python int
access_end(addr, size) == MinusOne(Add(addr, size))

\* Containment that ignores the size of the access: a faulty resolver.
contained_point_only(start, end, addr, size) ==
    Le(start, addr) /\ Lt(addr, end)

\* Lines 85-91: TRUE iff check_permission does not return None there.
contained(start, end, addr, size) ==
    IF size # None
    THEN Le(start, addr) /\ SignedLt(access_end(addr, size[1]), end)
    ELSE Le(start, addr) /\ Lt(addr, end)

\* Lines 94-99: TRUE iff the requested access type is denied.
denied(self, type) ==
    \/ type = "R" /\ ~readable(self)
    \/ type = "W" /\ ~writable(self)
    \/ type = "X" /\ ~executable(self)

RECURSIVE join(_, _)
join(sep, strs) ==
    IF strs = <<>> THEN ""
    ELSE IF Len(strs) = 1 THEN strs[1]
    ELSE strs[1] \o sep \o join(sep, Tail(strs))

\* The permission string without the X flag: a faulty resolver.
perm_string_without_x(self) ==
    LET p == (IF readable(self) THEN <<"R">> ELSE <<>>)
             \o (IF writable(self) THEN <<"W">> ELSE <<>>)
    IN  IF p # <<>> THEN join(",", p) ELSE "None"

\* Lines 101-108
perm_string(self) ==
    LET p == (IF readable(self) THEN <<"R">> ELSE <<>>)
             \o (IF writable(self) THEN <<"W">> ELSE <<>>)
             \o (IF executable(self) THEN <<"X">> ELSE <<>>)
    IN  IF p # <<>> THEN join(",", p) ELSE "None"

check_permission(self, addr, size, type) ==
    LET bounds == get_region_bounds(self, None)
    IN  IF ~contained(bounds[1], bounds[2], addr, size) THEN None
        ELSE IF denied(self, type) THEN None
        ELSE Some(perm_string(self))

\* Lines 189-194: the flags of the region's label, 'L' included
label_perms(self) ==
    join(",", (IF readable(self) THEN <<"R">> ELSE <<>>)
              \o (IF writable(self) THEN <<"W">> ELSE <<>>)
              \o (IF executable(self) THEN <<"X">> ELSE <<>>)
              \o (IF locked(self) THEN <<"L">> ELSE <<>>))

\* Lines 199-200: mode_map[entry.address_matching]
mode_map(mode) ==
    CASE mode = 0 -> "OFF"
      [] mode = 1 -> "TOR"
      [] mode = 2 -> "NA4"
      [] mode = 3 -> "NAPOT"

\* ------------------------------------------------------------------ inputs

\* 2^k
Pow2(k) == {k}

\* 2^k - 1: k one-bits
Ones(k) == 0..(k - 1)

\* The entries main() reads from the YAML file in Spec: every mode, the
\* entries of the specification's scenarios, and the NAPOT corner cases.
EntryValues ==
    { Entry(FromInt(1024), 16),          \* 0x400 NA4, no permission: [0x1000,0x1004)
      Entry(FromInt(1151), 25),          \* 0x47F NAPOT R: [0x1000,0x2000)
      Entry(FromInt(536870912), 29),     \* 0x20000000, cfg 0x1D
      Entry(FromInt(536870912), 15),     \* 0x20000000, cfg 0x0F: TOR R,W,X
      Entry(FromInt(2048), 9),           \* 0x800 TOR R: [.., 0x2000)
      Entry(Zero, 1),                    \* OFF R
      Entry(Ones(59), 31),               \* NAPOT R,W,X, log2len = 64
      Entry(FromInt(2), 26) }            \* NAPOT W, no trailing ones: [8, 40)

\* access_check: 0, 0x10, 0x1000, 0x1003 and 2^64 - 1.
AccessAddrs ==
    { Zero, FromInt(16), FromInt(4096), FromInt(4099), Ones(XLEN) }

\* access_size: absent, 0, 1 and 2.
AccessSizes == { None, Some(Zero), Some(One), Some(FromInt(2)) }

AccessTypes == { "R", "W", "X" }

\* ------------------------------------------------------------- the program

\* No call of get_region_bounds is being run statement by statement.
LoopIdle ==
    /\ lpc = "idle"
    /\ temp_addr = Zero
    /\ trailing_ones = 0

\* The area report parser is not running.
AreaIdle ==
    /\ area_pc = "idle"
    /\ lines_read = 0
    /\ current_indent = 0
    /\ path_stack = <<>>
    /\ data = <<>>

\* The latency script is not running.
ScanIdle ==
    /\ scan_pc = "idle"
    /\ pc_changes = <<>>
    /\ scan_i = 0
    /\ change_counts = <<>>
    /\ significant_indices = <<>>
    /\ cancelled_pairs = <<>>
    /\ processed_indices = {}

\* main() before the first entry is read; the locals of
\* visualize_pmp_entries are not yet assigned.
Init ==
    /\ entries = <<>>
    /\ access_addr = None
    /\ access_size = None
    /\ access_type = None
    /\ pc = "parse"
    /\ i = 0
    /\ regions = <<>>
    /\ info = <<>>
    /\ perm = None
    /\ perms = "No Match"
    /\ matching_pmp = None
    /\ LoopIdle
    /\ ScanIdle
    /\ AreaIdle

\* main(): entries.append(PMPEntry(addr=addr, cfg=cfg))
ParseEntry ==
    /\ pc = "parse"
    /\ Len(entries) < MaxEntries
    /\ \E e \in EntryValues : entries' = Append(entries, e)
    /\ UNCHANGED <<access_addr, access_size, access_type,
                   pc, i, regions, info, perm, perms, matching_pmp>>
    /\ UNCHANGED <<loop_vars, scan_vars, area_vars>>

\* main(): 'access_check' is in the configuration; visualize_pmp_entries
\* is entered.
ParseAccess ==
    /\ pc = "parse"
    /\ \E a \in AccessAddrs, s \in AccessSizes, t \in AccessTypes :
          /\ access_addr' = Some(a)
          /\ access_size' = s
          /\ access_type' = Some(t)
    /\ pc' = "draw"
    /\ i' = 0
    /\ UNCHANGED <<entries, regions, info, perm, perms, matching_pmp>>
    /\ UNCHANGED <<loop_vars, scan_vars, area_vars>>

\* main(): no 'access_check'; visualize_pmp_entries is entered.
ParseNoAccess ==
    /\ pc = "parse"
    /\ pc' = "draw"
    /\ i' = 0
    /\ UNCHANGED <<entries, access_addr, access_size, access_type,
                   regions, info, perm, perms, matching_pmp>>
    /\ UNCHANGED <<loop_vars, scan_vars, area_vars>>

\* One iteration of the drawing loop: the region shown for entry i.
DrawRegion ==
    /\ pc = "draw"
    /\ i < Len(entries)
    /\ LET entry == entries[i + 1]
           prev_addr == IF i > 0 THEN Some(entries[i].addr) ELSE None
       IN  /\ regions' = Append(regions, get_region_bounds(entry, prev_addr))
           /\ info' = Append(info, [perms |-> label_perms(entry),
                                    mode |-> mode_map(address_matching(entry))])
    /\ i' = i + 1
    /\ UNCHANGED <<entries, access_addr, access_size, access_type,
                   pc, perm, perms, matching_pmp>>
    /\ UNCHANGED <<loop_vars, scan_vars, area_vars>>

\* if access_addr is not None: perms = "No Match"; matching_pmp = None
StartResolve ==
    /\ pc = "draw"
    /\ i = Len(entries)
    /\ access_addr # None
    /\ perms' = "No Match"
    /\ matching_pmp' = None
    /\ i' = 0
    /\ pc' = "resolve"
    /\ UNCHANGED <<entries, access_addr, access_size, access_type,
                   regions, info, perm>>
    /\ UNCHANGED <<loop_vars, scan_vars, area_vars>>

\* access_addr is None: the resolver is skipped.
SkipResolve ==
    /\ pc = "draw"
    /\ i = Len(entries)
    /\ access_addr = None
    /\ pc' = "done"
    /\ UNCHANGED <<entries, access_addr, access_size, access_type,
                   i, regions, info, perm, perms, matching_pmp>>
    /\ UNCHANGED <<loop_vars, scan_vars, area_vars>>

\* The priority loop without its break, so that the last match wins: a
\* faulty resolver.
ResolveIter_without_break ==
    /\ pc = "resolve"
    /\ i < Len(entries)
    /\ LET p == check_permission(entries[i + 1], access_addr[1],
                                 access_size, access_type[1])
       IN  /\ perm' = p
           /\ IF p # None
              THEN /\ perms' = p[1]
                   /\ matching_pmp' = Some(i)
              ELSE UNCHANGED <<perms, matching_pmp>>
    /\ i' = i + 1
    /\ UNCHANGED <<entries, access_addr, access_size, access_type,
                   pc, regions, info>>
    /\ UNCHANGED <<loop_vars, scan_vars, area_vars>>

\* One iteration of the priority loop; on a match the loop breaks with i
\* left at the matching index.
ResolveIter ==
    /\ pc = "resolve"
    /\ i < Len(entries)
    /\ LET p == check_permission(entries[i + 1], access_addr[1],
                                 access_size, access_type[1])
       IN  /\ perm' = p
           /\ IF p # None
              THEN /\ perms' = p[1]
                   /\ matching_pmp' = Some(i)
                   /\ pc' = "done"
                   /\ i' = i
              ELSE /\ i' = i + 1
                   /\ UNCHANGED <<perms, matching_pmp, pc>>
    /\ UNCHANGED <<entries, access_addr, access_size, access_type,
                   regions, info>>
    /\ UNCHANGED <<loop_vars, scan_vars, area_vars>>

\* The priority loop ran out of entries.
ResolveEnd ==
    /\ pc = "resolve"
    /\ i = Len(entries)
    /\ pc' = "done"
    /\ UNCHANGED <<entries, access_addr, access_size, access_type,
                   i, regions, info, perm, perms, matching_pmp>>
    /\ UNCHANGED <<loop_vars, scan_vars, area_vars>>

Next ==
    \/ ParseEntry
    \/ ParseAccess
    \/ ParseNoAccess
    \/ DrawRegion
    \/ StartResolve
    \/ SkipResolve
    \/ ResolveIter
    \/ ResolveEnd

Spec == Init /\ [][Next]_vars

\* ------------------------------------------- the decoder on wide inputs

\* Address registers with every count t of trailing one-bits up to MaxOnes:
\* bits 0..t-1 set, bit t clear, and one of three patterns above bit t.
AddrRegs ==
    UNION { { Ones(t) \cup hi : hi \in { {}, {t + 1}, {t + 2, t + 4} } } :
            t \in 0..MaxOnes }

\* The address registers whose single entry is also resolved against.
ProbedAddrs ==
    UNION { { Ones(t) \cup hi : hi \in { {}, {t + 1}, {t + 2, t + 4} } } :
            t \in {0, 1, 3, 59, MaxOnes} }

\* Config bytes: every mode and every R/W/X combination, bits 5-7 clear.
CfgBytes == 0..31

\* Access addresses at and next to the bounds of the entry's region.
Probes(e) ==
    LET r == get_region_bounds(e, None)
    IN  {Zero, r[1], r[2], Ones(XLEN)}
        \cup (IF r[1] # Zero THEN {MinusOne(r[1]).mag} ELSE {})
        \cup (IF r[2] # Zero THEN {MinusOne(r[2]).mag} ELSE {})

\* visualize_pmp_entries is entered with a single entry and an access.
DecodeInit ==
    /\ \E a \in AddrRegs, c \in CfgBytes : entries = <<Entry(a, c)>>
    /\ \/ /\ access_addr = None
          /\ access_size = None
          /\ access_type = None
       \/ /\ entries[1].addr \in ProbedAddrs
          /\ \E a \in Probes(entries[1]) : access_addr = Some(a)
          /\ access_size \in AccessSizes
          /\ \E t \in AccessTypes : access_type = Some(t)
    /\ pc = "draw"
    /\ i = 0
    /\ regions = <<>>
    /\ info = <<>>
    /\ perm = None
    /\ perms = "No Match"
    /\ matching_pmp = None
    /\ LoopIdle
    /\ ScanIdle
    /\ AreaIdle

DecodeNext ==
    \/ DrawRegion
    \/ StartResolve
    \/ SkipResolve
    \/ ResolveIter
    \/ ResolveEnd

DecodeSpec == DecodeInit /\ [][DecodeNext]_vars

\* ------------------------------------- the decoder on every config byte

\* Address registers: zero, odd and even, one and many trailing one-bits,
\* and one with bit 61 set.
ConfigAddrs == { Zero, FromInt(1024), FromInt(1025), FromInt(1151), {0, 61} }

\* Every config byte, bits 5, 6 and 7 included.
ConfigBytes == 0..255

\* The entries that may precede the decoded one: a TOR entry with all flags
\* and a locked NAPOT entry without any.
PrevEntries == { Entry(FromInt(536870912), 15), Entry(FromInt(19), 152) }

\* visualize_pmp_entries is entered with one entry of any config byte,
\* alone or behind another entry, and with or without an access to the
\* first byte of its NA4 region.
ConfigInit ==
    /\ \E a \in ConfigAddrs, c \in ConfigBytes :
          \/ entries = <<Entry(a, c)>>
          \/ \E p \in PrevEntries : entries = <<p, Entry(a, c)>>
    /\ \/ /\ access_addr = None
          /\ access_type = None
       \/ /\ access_addr = Some(Shl(entries[Len(entries)].addr, PMP_SHIFT))
          /\ \E t \in AccessTypes : access_type = Some(t)
    /\ access_size = None
    /\ pc = "draw"
    /\ i = 0
    /\ regions = <<>>
    /\ info = <<>>
    /\ perm = None
    /\ perms = "No Match"
    /\ matching_pmp = None
    /\ LoopIdle
    /\ ScanIdle
    /\ AreaIdle

ConfigSpec == ConfigInit /\ [][DecodeNext]_vars

\* ------------------------------ get_region_bounds, statement by statement

\* Config bytes of the calls run statement by statement: OFF, TOR, NA4,
\* NAPOT with all flags, and a locked NAPOT without flags.
LoopCfgs == { 0, 9, 17, 31, 152 }

\* The entry get_region_bounds is called on, and its prev_addr argument.
self == entries[i + 1]

prev_addr == IF i > 0 THEN Some(entries[i].addr) ELSE None

\* The drawing loop calls get_region_bounds on its last entry, the first
\* or the second of the list; the regions before it are drawn.
LoopInit ==
    /\ \E a \in AddrRegs, c \in LoopCfgs :
          \/ entries = <<Entry(a, c)>>
          \/ \E p \in PrevEntries : entries = <<p, Entry(a, c)>>
    /\ access_addr = None
    /\ access_size = None
    /\ access_type = None
    /\ pc = "draw"
    /\ i = Len(entries) - 1
    /\ regions = [k \in 1..i |-> get_region_bounds(entries[k], None)]
    /\ info = [k \in 1..i |->
                  [perms |-> label_perms(entries[k]),
                   mode |-> mode_map(address_matching(entries[k]))]]
    /\ perm = None
    /\ perms = "No Match"
    /\ matching_pmp = None
    /\ lpc = "call"
    /\ temp_addr = Zero
    /\ trailing_ones = 0
    /\ ScanIdle
    /\ AreaIdle

\* Lines 43-51: the OFF, TOR and NA4 branches return at once.
ReturnDirect ==
    /\ lpc = "call"
    /\ address_matching(self) # 3
    /\ regions' = Append(regions,
                         IF address_matching(self) = 0 THEN <<Zero, Zero>>
                         ELSE IF address_matching(self) = 1
                         THEN tor_bounds(self, prev_addr)
                         ELSE na4_bounds(self))
    /\ lpc' = "returned"
    /\ UNCHANGED <<entries, access_addr, access_size, access_type,
                   pc, i, info, perm, perms, matching_pmp>>
    /\ UNCHANGED <<temp_addr, trailing_ones, scan_vars, area_vars>>

\* Lines 52-57: the NAPOT branch; trailing_ones = 0; temp_addr = encoded_addr
EnterNapot ==
    /\ lpc = "call"
    /\ address_matching(self) = 3
    /\ trailing_ones' = 0
    /\ temp_addr' = self.addr
    /\ lpc' = "loop"
    /\ UNCHANGED <<pmp_vars, scan_vars, area_vars>>

\* The loop body without the shift of temp_addr: a faulty decoder.
LoopStep_without_shift ==
    /\ lpc = "loop"
    /\ LowBit(temp_addr)
    /\ trailing_ones' = trailing_ones + 1
    /\ UNCHANGED <<pmp_vars, lpc, temp_addr, scan_vars, area_vars>>

\* Lines 58-62: while temp_addr & 1: trailing_ones += 1; temp_addr >>= 1
LoopStep ==
    /\ lpc = "loop"
    /\ LowBit(temp_addr)
    /\ trailing_ones' = trailing_ones + 1
    /\ temp_addr' = Shr(temp_addr, 1)
    /\ UNCHANGED <<pmp_vars, lpc, scan_vars, area_vars>>

\* Lines 63-79: the loop has ended; the region is computed and returned.
LoopExit ==
    /\ lpc = "loop"
    /\ ~LowBit(temp_addr)
    /\ regions' = Append(regions, napot_bounds(self.addr, trailing_ones))
    /\ lpc' = "returned"
    /\ UNCHANGED <<entries, access_addr, access_size, access_type,
                   pc, i, info, perm, perms, matching_pmp>>
    /\ UNCHANGED <<temp_addr, trailing_ones, scan_vars, area_vars>>

LoopNext ==
    \/ ReturnDirect
    \/ EnterNapot
    \/ LoopStep
    \/ LoopExit

\* The interpreter runs the next statement of the call whenever there is one.
LoopSpec == LoopInit /\ [][LoopNext]_vars /\ WF_vars(LoopNext)

\* ------------------------------ parse-instr-latency-diff.py: the pair scan

\* Cycle differences of the changed instructions: below, at and above the
\* five-cycle threshold, of both signs.
ChangeValues == { -5, -1, 0, 1, 5 }

\* pc_addrs, indexed from 0 like pc_changes in the source: one distinct PC
\* per changed instruction.
pc_addrs == [k \in 0..(Len(pc_changes) - 1) |-> 4096 + 4 * k]

\* abs(x)
abs(x) == IF x < 0 THEN -x ELSE x

\* min(a, b)
min(a, b) == IF a < b THEN a ELSE b

\* The PMP visualizer is not running.
PmpIdle ==
    /\ entries = <<>>
    /\ access_addr = None
    /\ access_size = None
    /\ access_type = None
    /\ pc = "idle"
    /\ i = 0
    /\ regions = <<>>
    /\ info = <<>>
    /\ perm = None
    /\ perms = "No Match"
    /\ matching_pmp = None

\* Lines 129-143: a non-empty pc_changes has been read; the containers are
\* empty and i = 0.
ScanInit ==
    /\ \E n \in 1..MaxChanges : pc_changes \in [1..n -> ChangeValues]
    /\ scan_pc = "scan"
    /\ scan_i = 0
    /\ change_counts = <<>>
    /\ significant_indices = <<>>
    /\ cancelled_pairs = <<>>
    /\ processed_indices = {}
    /\ PmpIdle
    /\ LoopIdle
    /\ AreaIdle

\* Lines 144-168: one iteration of the while loop, the inner for loop
\* included. pc_changes[k + 1] is the source's pc_changes[k].
ScanStep ==
    /\ scan_pc = "scan"
    /\ scan_i < Len(pc_changes)
    /\ IF scan_i \in processed_indices
       THEN /\ scan_i' = scan_i + 1
            /\ UNCHANGED <<change_counts, significant_indices,
                           cancelled_pairs, processed_indices>>
       ELSE LET current_change == pc_changes[scan_i + 1]
                cancelling ==
                    {j \in (scan_i + 1)..(min(scan_i + 6, Len(pc_changes)) - 1) :
                        pc_changes[j + 1] + current_change = 0}
            IN  IF cancelling # {}
                THEN LET j == CHOOSE x \in cancelling :
                                  \A y \in cancelling : x <= y
                     IN  /\ cancelled_pairs' =
                               Append(cancelled_pairs,
                                      <<pc_addrs[scan_i], pc_addrs[j],
                                        current_change, j - scan_i>>)
                         /\ processed_indices' =
                               processed_indices \cup {scan_i, j}
                         /\ scan_i' = j + 1
                         /\ UNCHANGED <<change_counts, significant_indices>>
                ELSE /\ IF abs(current_change) >= 5
                        THEN /\ significant_indices' =
                                   Append(significant_indices, scan_i)
                             /\ UNCHANGED change_counts
                        ELSE /\ change_counts' =
                                   IF current_change \in DOMAIN change_counts
                                   THEN [change_counts EXCEPT
                                            ![current_change] = @ + 1]
                                   ELSE change_counts @@ (current_change :> 1)
                             /\ UNCHANGED significant_indices
                     /\ scan_i' = scan_i + 1
                     /\ UNCHANGED <<cancelled_pairs, processed_indices>>
    /\ UNCHANGED <<scan_pc, pc_changes, pmp_vars, loop_vars, area_vars>>

\* Line 144: i < len(pc_changes) is false; the loop is left.
ScanEnd ==
    /\ scan_pc = "scan"
    /\ scan_i >= Len(pc_changes)
    /\ scan_pc' = "done"
    /\ UNCHANGED <<pc_changes, scan_i, change_counts, significant_indices,
                   cancelled_pairs, processed_indices, pmp_vars, loop_vars, area_vars>>

ScanNext ==
    \/ ScanStep
    \/ ScanEnd

ScanSpec == ScanInit /\ [][ScanNext]_vars

\* ------------------------------------- syn_magic.py: the area report parser

\* Leading whitespace of the report lines: the report's steps of two, an odd
\* indentation and a jump of more than one level.
Indents == { 0, 1, 2, 4 }

\* line.split() of the report lines: a top module with cell count and area,
\* an instance whose third column is no number, and a bare instance name
\* that contains the path separator.
LineInfos ==
    { << "top", "cpu", "120", "45.5" >>,
      << "u1", "alu", "x.y", "7" >>,
      << "a/b" >> }

\* '.' in val, for the tokens of LineInfos
has_dot(val) == val \in { "45.5", "x.y" }

\* val.isdigit(), for the tokens of LineInfos
isdigit(val) == val \in { "120", "7" }

\* float(val) in tenths; None where float() raises ValueError
to_float(val) == IF val = "45.5" THEN Some(455) ELSE None

\* int(val)
to_int(val) == CASE val = "120" -> 120 [] val = "7" -> 7

\* Lines 53-55: while indent <= current_indent and path_stack: pop
RECURSIVE pop_levels(_, _, _)
pop_levels(indent, cur_indent, stack) ==
    IF indent <= cur_indent /\ stack # <<>>
    THEN pop_levels(indent, cur_indent - 2, SubSeq(stack, 1, Len(stack) - 1))
    ELSE stack

\* Lines 65-75: the loop over instance_info[2:]; the last area and the last
\* cell count win, a float() that raises is skipped.
RECURSIVE numeric_values(_, _, _)
numeric_values(vals, cell_count, total_area) ==
    IF vals = <<>>
    THEN [cell_count |-> cell_count, total_area |-> total_area]
    ELSE LET val == Head(vals)
         IN  IF has_dot(val)
             THEN numeric_values(Tail(vals), cell_count,
                                 IF to_float(val) # None
                                 THEN to_float(val)[1] ELSE total_area)
             ELSE IF isdigit(val)
             THEN numeric_values(Tail(vals), to_int(val), total_area)
             ELSE numeric_values(Tail(vals), cell_count, total_area)

\* The parent taken from the whole stack: a faulty parser.
row_parent_whole_stack(stack) == join("/", stack)

\* Line 79: '/'.join(path_stack[:-1])
row_parent(stack) == join("/", SubSeq(stack, 1, Len(stack) - 1))

\* Lines 36-37: parse_report has skipped the header.
AreaInit ==
    /\ area_pc = "parse"
    /\ lines_read = 0
    /\ current_indent = 0
    /\ path_stack = <<>>
    /\ data = <<>>
    /\ PmpIdle
    /\ LoopIdle
    /\ ScanIdle

\* Lines 40-46: a blank line or a separator line is skipped.
SkipLine ==
    /\ area_pc = "parse"
    /\ lines_read < MaxLines
    /\ lines_read' = lines_read + 1
    /\ UNCHANGED <<area_pc, current_indent, path_stack, data>>
    /\ UNCHANGED <<pmp_vars, loop_vars, scan_vars>>

\* Lines 48-84: one report line is turned into a row.
ParseLine ==
    /\ area_pc = "parse"
    /\ lines_read < MaxLines
    /\ \E indent \in Indents, instance_info \in LineInfos :
          LET instance_name == instance_info[1]
              stack == Append(pop_levels(indent, current_indent, path_stack),
                              instance_name)
              module_name == IF Len(instance_info) > 1
                             THEN instance_info[2] ELSE ""
              nums == numeric_values(SubSeq(instance_info, 3,
                                            Len(instance_info)), 0, 0)
          IN  /\ path_stack' = stack
              /\ current_indent' = indent
              /\ data' = Append(data,
                                [id |-> join("/", stack),
                                 parent |-> row_parent(stack),
                                 name |-> instance_name,
                                 module |-> module_name,
                                 cell_count |-> nums.cell_count,
                                 total_area |-> nums.total_area])
    /\ lines_read' = lines_read + 1
    /\ UNCHANGED area_pc
    /\ UNCHANGED <<pmp_vars, loop_vars, scan_vars>>

\* Line 39: the lines are exhausted.
ParseEnd ==
    /\ area_pc = "parse"
    /\ area_pc' = "done"
    /\ UNCHANGED <<lines_read, current_indent, path_stack, data>>
    /\ UNCHANGED <<pmp_vars, loop_vars, scan_vars>>

AreaNext ==
    \/ SkipLine
    \/ ParseLine
    \/ ParseEnd

AreaSpec == AreaInit /\ [][AreaNext]_vars

\* ------------------------------------------------- vocabulary of the claims

\* The resolver has been entered.
Resolving == access_addr # None /\ pc \in {"resolve", "done"}

\* The resolver has returned its verdict.
Resolved == access_addr # None /\ pc = "done"

\* Index of the entry check_permission was last applied to (-1: none yet).
LastChecked == IF perm # None THEN i ELSE i - 1

HasChecked == Resolving /\ LastChecked >= 0

CheckedEntry == entries[LastChecked + 1]

\* The region check_permission tests entry e against.
TestedRegion(e) == get_region_bounds(e, None)

\* The bytes of the access lie in [r[1], r[2]): a point when no size is
\* given, the range [a, a + size) otherwise.
Covers(r, a, s) ==
    IF s = None
    THEN Le(r[1], a) /\ Lt(a, r[2])
    ELSE Le(r[1], a) /\ Le(Add(a, s[1]), r[2])

\* The config byte has the bit of access type t (bit 0 R, bit 1 W, bit 2 X).
HasBit(e, t) ==
    CASE t = "R" -> e.cfg % 2 = 1
      [] t = "W" -> (e.cfg \div 2) % 2 = 1
      [] t = "X" -> (e.cfg \div 4) % 2 = 1

\* Mode of the config byte: bits [4:3].
ModeOf(e) == (e.cfg \div 8) % 4

\* Number of consecutive least-significant one-bits of n.
TrailingOnesOf(n) ==
    CHOOSE t \in 0..(MaxOnes + 8) : t \notin n /\ \A b \in 0..(t - 1) : b \in n

\* Indices (0-based) of the enabled entries whose tested region contains the
\* access (an OFF entry has no region).
Containing ==
    {k \in 0..(Len(entries) - 1) :
        LET r == TestedRegion(entries[k + 1])
        IN  /\ ModeOf(entries[k + 1]) # 0
            /\ contained(r[1], r[2], access_addr[1], access_size)}

\* ------------------------------------------------------------------ claims

(***************************************************************************)
(* C1: the verdict is that of the lowest-index entry whose region contains *)
(* the access; a containing entry without the requested bit is reported as *)
(* the match and shadows every higher-index entry.                         *)
(***************************************************************************)
C1_LowestContainingDecides ==
    (Resolved /\ Containing # {}) =>
        \E k \in Containing :
            /\ \A j \in Containing : k <= j
            /\ matching_pmp = Some(k)

(***************************************************************************)
(* C2: a TOR entry at index k > 0 is tested against the region shown for   *)
(* it, [entries[k-1].addr << 2, entries[k].addr << 2): it never matches an *)
(* access that region does not contain.                                    *)
(***************************************************************************)
C2_TorTestedAgainstShownRegion ==
    \A k \in 1..(Len(entries) - 1) :
        (Resolved /\ matching_pmp = Some(k) /\ ModeOf(entries[k + 1]) = 1) =>
            /\ Le(Shl(entries[k].addr, 2), access_addr[1])
            /\ Covers(regions[k + 1], access_addr[1], access_size)

(***************************************************************************)
(* C3, as stated: the single entry (addr=0x20000000, cfg=0x1D) decodes to  *)
(* the region (0, 0x80000000), and the access (0x1000, no size, 'R')       *)
(* resolves to index 0 with permissions R,W,X.                             *)
(***************************************************************************)
C3_Scenario(cfg) ==
    /\ Resolved
    /\ entries = <<Entry(FromInt(536870912), cfg)>>
    /\ access_addr = Some(FromInt(4096))
    /\ access_size = None
    /\ access_type = Some("R")

C3_Original ==
    C3_Scenario(29) =>
        /\ regions = << <<Zero, Pow2(31)>> >>
        /\ matching_pmp = Some(0)
        /\ perms = "R,W,X"

(***************************************************************************)
(* C3, amended: cfg 0x1D is NAPOT with R and X, the entry decodes to the   *)
(* region (0x80000000, 0x80000020) and the access (0x1000, no size, 'R')   *)
(* resolves to no match; with cfg 0x0F (TOR, R, W, X) the region is        *)
(* (0, 0x80000000) and the access resolves to index 0 with R,W,X.          *)
(***************************************************************************)
C3_Amended ==
    /\ C3_Scenario(29) =>
          /\ ModeOf(entries[1]) = 3
          /\ regions = << <<Pow2(31), Pow2(31) \cup Pow2(5)>> >>
          /\ matching_pmp = None
          /\ perms = "No Match"
    /\ C3_Scenario(15) =>
          /\ ModeOf(entries[1]) = 1
          /\ regions = << <<Zero, Pow2(31)>> >>
          /\ matching_pmp = Some(0)
          /\ perms = "R,W,X"

C3_Witness == C3_Scenario(29)

(***************************************************************************)
(* C4: an entry in OFF mode never matches, whatever the address register,  *)
(* the access address, the size (absent, 0 or positive) and the type.      *)
(***************************************************************************)
C4_OffNeverMatches ==
    (HasChecked /\ ModeOf(CheckedEntry) = 0) => perm = None

(***************************************************************************)
(* C5: check_permission reports an entry only if the whole access lies in  *)
(* the tested region (the byte range [a, a + size) when a size is given,   *)
(* the point a otherwise), and reports it whenever it does and the entry   *)
(* has the requested bit; an access of size > 1 starting one byte before   *)
(* the end of the region is never reported.                                *)
(***************************************************************************)
C5_ContainmentAllOrNothing ==
    HasChecked =>
        LET e == CheckedEntry
            r == TestedRegion(e)
            a == access_addr[1]
            s == access_size
        IN  /\ perm # None => Covers(r, a, s)
            /\ (Covers(r, a, s) /\ HasBit(e, access_type[1])) => perm # None
            /\ (s # None /\ Lt(One, s[1]) /\ Add(a, One) = r[2]) => perm = None

\* A two-byte access starts on the last byte of the region of an entry that
\* has the requested bit, and check_permission has answered.
C5_Witness ==
    /\ HasChecked
    /\ access_size = Some(FromInt(2))
    /\ Le(TestedRegion(CheckedEntry)[1], access_addr[1])
    /\ Add(access_addr[1], One) = TestedRegion(CheckedEntry)[2]
    /\ HasBit(CheckedEntry, access_type[1])
    /\ perm = None

\* The start of region r is a multiple of its size end - start, for a size
\* that is a power of two 2^m (start has no bit below m) or a start of 0.
StartAlignedToSize(r) ==
    \/ r[1] = Zero
    \/ \E m \in 0..(MaxOnes + 8) :
          /\ r[2] = Add(r[1], Pow2(m))
          /\ \A b \in r[1] : b >= m

(***************************************************************************)
(* C6: the region decoded for a NAPOT entry starts at a multiple of its    *)
(* size.                                                                   *)
(***************************************************************************)
C6_NapotStartAligned ==
    \A k \in 1..Len(regions) :
        ModeOf(entries[k]) = 3 => StartAlignedToSize(regions[k])

\* end - start of region r is 2^m for some m >= least.
SizeIsPow2AtLeast(r, least) ==
    \E m \in least..(MaxOnes + 8) : r[2] = Add(r[1], Pow2(m))

In64Bits(n) == \A b \in n : b < XLEN

C9_WholeSpaceContainsAll ==
    ( /\ HasChecked
      /\ ModeOf(CheckedEntry) = 3
      /\ TrailingOnesOf(CheckedEntry.addr) + 5 = XLEN
      /\ access_size = None
      /\ Le(access_addr[1], Ones(XLEN))
      /\ HasBit(CheckedEntry, access_type[1]) ) => perm # None

(***************************************************************************)
(* C10: when no entry's region as decoded in entry order (the regions      *)
(* shown, TOR starting at the previous entry's address) contains the       *)
(* access, the resolver reports no matching index and 'No Match'.          *)
(***************************************************************************)
C10_NoContainingNoMatch ==
    ( /\ Resolved
      /\ \A k \in 1..Len(entries) :
            ~Covers(regions[k], access_addr[1], access_size) ) =>
        /\ matching_pmp = None
        /\ perms = "No Match"

(***************************************************************************)
(* C11: whenever check_permission has been applied to an access that       *)
(* carries a size (size 0 included, at every address from 0 on), the       *)
(* access end  address + size - 1  it computed is not below 0.             *)
(***************************************************************************)
C11_AccessEndNotBelowZero ==
    (HasChecked /\ access_size # None)
        => ~access_end(access_addr[1], access_size[1]).neg

\* 4 * n, by addition
Times4(n) == Add(Add(n, n), Add(n, n))

(***************************************************************************)
(* C12: the region drawn for a TOR entry is exactly (prev << 2, addr << 2) *)
(* when a previous entry exists and (0, addr << 2) for the first entry,    *)
(* whatever the mode and config byte of the previous entry.                *)
(***************************************************************************)
C12_TorBounds ==
    \A k \in 1..Len(regions) :
        ModeOf(entries[k]) = 1
            => regions[k] = << IF k = 1 THEN Zero
                                        ELSE Times4(entries[k - 1].addr),
                               Times4(entries[k].addr) >>

\* A TOR entry has been drawn behind a non-TOR entry with a non-zero address.
C12_Witness ==
    \E k \in 2..Len(regions) :
        /\ ModeOf(entries[k]) = 1
        /\ ModeOf(entries[k - 1]) # 1
        /\ entries[k - 1].addr # Zero
        /\ regions[k][1] # Zero

\* The flags of the low three config bits 1..7, in the order R, W, X.
FlagNames == << "R", "W", "R,W", "X", "R,X", "W,X", "R,W,X" >>

(***************************************************************************)
(* C13: whenever the resolver reports a match, the permission set it       *)
(* reports is exactly the R/W/X bits set in the matched entry's config     *)
(* byte, for each requested type R, W and X.                               *)
(***************************************************************************)
C13_ReportedPermissions ==
    (Resolved /\ matching_pmp # None)
        => LET flags == entries[matching_pmp[1] + 1].cfg % 8
           IN  flags # 0 /\ perms = FlagNames[flags]

\* A match has been reported on an entry that grants more than was asked.
C13_Witness ==
    /\ Resolved
    /\ matching_pmp # None
    /\ access_type = Some("W")
    /\ perms = "R,W,X"

\* Indices (0-based) of the entries whose region, decoded without a previous
\* address as check_permission does, covers the access and whose config byte
\* has the bit of the requested type.
Granting ==
    {k \in 0..(Len(entries) - 1) :
        /\ Covers(TestedRegion(entries[k + 1]), access_addr[1], access_size)
        /\ HasBit(entries[k + 1], access_type[1])}

\* The permission strings that name access type t.
StringsNaming(t) ==
    LET bit == CASE t = "R" -> 1 [] t = "W" -> 2 [] t = "X" -> 4
    IN  {FlagNames[f] : f \in {g \in 1..7 : (g \div bit) % 2 = 1}}

C19_RegionsWellFormed ==
    \A k \in 1..Len(regions) : Le(regions[k][1], regions[k][2])

\* The entries the drawing loop has decoded so far, as 1-based indices.
Drawn == 1..Len(regions)

\* The previous address the drawing loop passed for entry k.
PrevAddrOf(k) == IF k > 1 THEN Some(entries[k - 1].addr) ELSE None

(***************************************************************************)
(* C16: an entry in OFF mode decodes to the region (0, 0) for every        *)
(* address register, every value of the other config bits (R, W, X, L and  *)
(* bits 5-6) and every previous address.                                   *)
(***************************************************************************)
C16_OffIsEmpty ==
    \A k \in Drawn :
        ModeOf(entries[k]) = 0 => regions[k] = <<Zero, Zero>>

\* An OFF entry with R, W, X, L and bits 5-6 set and a non-zero address has
\* been decoded behind a previous entry.
C16_Witness ==
    /\ 2 \in Drawn
    /\ entries[2].cfg = 231
    /\ entries[2].addr # Zero
    /\ entries[1].addr # Zero

(***************************************************************************)
(* C17: an entry in NA4 mode decodes to a region whose start is addr << 2, *)
(* a multiple of 4, and whose end is start + 4, whatever the previous      *)
(* address.                                                                *)
(***************************************************************************)
C17_Na4IsFourBytes ==
    \A k \in Drawn :
        ModeOf(entries[k]) = 2
            => /\ regions[k][1] = Times4(entries[k].addr)
               /\ regions[k][1] \cap {0, 1} = {}
               /\ regions[k][2] = Add(regions[k][1], FromInt(4))

\* An NA4 entry with an odd address register has been decoded behind a
\* previous entry.
C17_Witness ==
    /\ 2 \in Drawn
    /\ ModeOf(entries[2]) = 2
    /\ 0 \in entries[2].addr
    /\ entries[1].addr # Zero

\* Bit b of config byte c is set.
BitSet(c, b) == (c \div (2 ^ b)) % 2 = 1

\* The label flags the fixed bit layout gives config byte c: R bit 0, W bit 1,
\* X bit 2, L bit 7.
LayoutFlags(c) ==
    LET rwx == IF c % 8 = 0 THEN "" ELSE FlagNames[c % 8]
    IN  IF ~BitSet(c, 7) THEN rwx
        ELSE IF rwx = "" THEN "L" ELSE rwx \o ",L"

\* The mode name the fixed bit layout gives config byte c: bits [4:3].
LayoutMode(c) ==
    IF BitSet(c, 4)
    THEN (IF BitSet(c, 3) THEN "NAPOT" ELSE "NA4")
    ELSE (IF BitSet(c, 3) THEN "TOR" ELSE "OFF")

\* The entry that differs from e in the unused config bit 6 only.
Bit6Twin(e) ==
    Entry(e.addr, IF BitSet(e.cfg, 6) THEN e.cfg - 64 ELSE e.cfg + 64)

\* What the drawing loop shows of entry k alone or behind previous address p.
Shown(e, p) ==
    << get_region_bounds(e, p), label_perms(e), mode_map(address_matching(e)) >>

C14_LayoutOfDrawn ==
    \A k \in Drawn :
        /\ info[k].perms = LayoutFlags(entries[k].cfg)
        /\ info[k].mode = LayoutMode(entries[k].cfg)
        /\ Shown(entries[k], PrevAddrOf(k))
              = << regions[k], info[k].perms, info[k].mode >>
        /\ Shown(Bit6Twin(entries[k]), PrevAddrOf(k))
              = Shown(entries[k], PrevAddrOf(k))

C14_LayoutOfResolved ==
    (Resolved /\ matching_pmp # None)
        => LET e == entries[matching_pmp[1] + 1]
           IN  /\ BitSet(e.cfg, CASE access_type[1] = "R" -> 0
                                  [] access_type[1] = "W" -> 1
                                  [] access_type[1] = "X" -> 2)
               /\ check_permission(Bit6Twin(e), access_addr[1], access_size,
                                   access_type[1]) = Some(perms)

(***************************************************************************)
(* C14: for every config byte 0..255 the flags and the mode shown and used *)
(* follow the fixed bit layout (readable bit 0, writable bit 1, executable *)
(* bit 2, mode bits [4:3], locked bit 7); an entry and the entry with the  *)
(* same address whose config byte differs only in the unused bit 6 decode  *)
(* to the same flags, mode and region; and no step of decoding or          *)
(* resolving changes an entry's addr or cfg.                               *)
(***************************************************************************)
C14_ConfigLayout ==
    /\ [](C14_LayoutOfDrawn /\ C14_LayoutOfResolved)
    /\ [][entries' = entries]_vars

\* A locked NAPOT entry with bit 6 set and all of R, W, X has been drawn
\* and matched by the resolver.
C14_Witness ==
    /\ Resolved
    /\ matching_pmp # None
    /\ entries[matching_pmp[1] + 1].cfg = 223
    /\ Len(regions) = Len(entries)

\* Number of bits of n: 0 for 0, else one more than its highest one-bit.
BitLength(n) == IF n = {} THEN 0 ELSE 1 + CHOOSE h \in n : \A b \in n : b <= h

\* The call of get_region_bounds has returned a pair of non-negative integers.
ReturnedPair ==
    /\ Len(regions) = i + 1
    /\ DOMAIN regions[i + 1] = 1..2
    /\ \A x \in 1..2 : regions[i + 1][x] \subseteq 0..(MaxOnes + 8)

(***************************************************************************)
(* C15: for every non-negative address register, in every mode and with    *)
(* the previous address absent or present, the call of get_region_bounds   *)
(* terminates and returns a (start, end) pair; the NAPOT loop has counted  *)
(* at most as many bits as the address has when it ends.                   *)
(***************************************************************************)
C15_DecoderTerminates ==
    /\ <>(lpc = "returned")
    /\ [](lpc = "returned" => ReturnedPair)
    /\ [](trailing_ones <= BitLength(self.addr))

\* A NAPOT call on an address with sixty-four trailing one-bits has returned
\* after the loop counted all of them.
C15_Witness ==
    /\ lpc = "returned"
    /\ address_matching(self) = 3
    /\ trailing_ones = 64
    /\ ReturnedPair

\* The indices of pc_changes, 0-based as in the source.
Indices == 0..(Len(pc_changes) - 1)

\* Number of cancelled pairs instruction k is a member of.
PairsWith(k) ==
    Cardinality({p \in 1..Len(cancelled_pairs) :
                    pc_addrs[k] \in {cancelled_pairs[p][1], cancelled_pairs[p][2]}})

\* Number of times k occurs in significant_indices.
TimesSignificant(k) ==
    Cardinality({q \in 1..Len(significant_indices) : significant_indices[q] = k})

\* change_counts.get(v, 0)
CountOf(v) == IF v \in DOMAIN change_counts THEN change_counts[v] ELSE 0

(***************************************************************************)
(* C20: when the cancel-pair scan has ended, every index 0..n-1 is         *)
(* accounted for exactly once: it is in exactly one cancelled pair, or     *)
(* once in significant_indices (|change| >= 5), or it was counted once in  *)
(* change_counts (|change| < 5); no index is dropped or counted twice.     *)
(***************************************************************************)
C20_EveryIndexOnce ==
    scan_pc = "done" =>
        /\ \A k \in Indices :
              /\ PairsWith(k) + TimesSignificant(k) <= 1
              /\ TimesSignificant(k) = 1 => abs(pc_changes[k + 1]) >= 5
              /\ (PairsWith(k) = 0 /\ abs(pc_changes[k + 1]) >= 5)
                    => TimesSignificant(k) = 1
        /\ \A v \in ChangeValues :
              CountOf(v) =
                Cardinality({k \in Indices :
                                /\ pc_changes[k + 1] = v
                                /\ PairsWith(k) = 0
                                /\ TimesSignificant(k) = 0})

\* Row k has no dangling parent: its parent is empty or the id of a row
\* emitted before it.
ParentEmitted(k) ==
    \/ data[k].parent = ""
    \/ \E j \in 1..(k - 1) : data[j].id = data[k].parent

\* C21 as stated: the id of every row is its parent, '/', and its name.
C21_Original ==
    \A k \in 1..Len(data) :
        /\ ParentEmitted(k)
        /\ data[k].id = data[k].parent \o "/" \o data[k].name

(***************************************************************************)
(* C21: for report lines of any indentation, every row emitted by          *)
(* parse_report has a parent that is empty or the id of a row emitted      *)
(* earlier; its id is its instance name when the parent is empty, and its  *)
(* parent, '/', and its instance name otherwise.                           *)
(***************************************************************************)
C21_Amended ==
    \A k \in 1..Len(data) :
        /\ ParentEmitted(k)
        /\ data[k].id = IF data[k].parent = "" THEN data[k].name
                        ELSE data[k].parent \o "/" \o data[k].name

\* After the stack has been three deep, a line of smaller indentation has
\* been emitted below the top-level row again.
C21_Witness ==
    /\ Len(data) = 4
    /\ data[3].parent = data[2].id
    /\ data[2].parent = data[1].id
    /\ data[4].parent = data[1].id
    /\ area_pc = "done"

====
